---- MODULE Spec2Model ----
(***************************************************************************)
(* A model of src/src/k8s_operator.py: the DatabaseOperator registry       *)
(* (self.databases), the DatabaseResource objects it refers to, the        *)
(* reconciliation history, and the operations create / reconcile / update  *)
(* / delete / scale / backup, statement by statement.                      *)
(*                                                                         *)
(* Every method is an operator over a program state record S and a thread  *)
(* t: it executes the statement the thread's program counter stands at.    *)
(* The specification Spec runs each public call to completion in one       *)
(* action (the program as written is single-threaded and synchronous).     *)
(* The specification SpecSteps runs the same statements one at a time, so  *)
(* that the states between the statements of one call are visible.         *)
(* The specification SpecThreads lets two caller threads run those          *)
(* statements interleaved: the class takes no lock.                        *)
(*                                                                         *)
(* datetime.now() is a logical clock: every reading returns the current    *)
(* value and advances it, so readings are distinct and increasing.         *)
(* DatabaseResource objects live in a heap and self.databases maps names   *)
(* to them, as in Python: a local db may outlive its entry in the store.   *)
(***************************************************************************)
EXTENDS Integers, Sequences, FiniteSets, TLC

VARIABLES databases, heap, reconciliation_history, clock, threads

vars == <<databases, heap, reconciliation_history, clock, threads>>

----------------------------------------------------------------------------
(* Bounds and input sets *)

\* The number of datetime.now() readings a behaviour may take; it bounds the
\* length of the history and the generation counters with it.
MaxClock == 5

Names == {"prod-db", "cache-redis"}

Main == "main"
Worker == "worker"
Threads == {Main, Worker}

\* Object identities: at most one object per stored name plus one per thread
\* (a thread may hold a resource that is no longer in the store).
ObjIds == 1 .. (Cardinality(Names) + Cardinality(Threads))

NoRef == 0

Engines == {"postgresql", "redis"}
Versions == {"14.9"}
Storages == {"100Gi"}
ReplicaCounts == {5}

\* A spec dict with the given entries; "" (0 for replicas) leaves the key out.
MkSpec(e, v, s, r) ==
    [k \in (IF e = "" THEN {} ELSE {"engine"}) \cup
           (IF v = "" THEN {} ELSE {"version"}) \cup
           (IF s = "" THEN {} ELSE {"storage"}) \cup
           (IF r = 0 THEN {} ELSE {"replicas"}) |->
        CASE k = "engine" -> e
          [] k = "version" -> v
          [] k = "storage" -> s
          [] OTHER -> r]

\* The spec dicts callers pass to create_database and update_database.
InputSpecs ==
    {MkSpec(e, v, s, r) : e \in Engines \cup {""}, v \in Versions \cup {""},
                          s \in Storages \cup {""}, r \in {0, 3}}

EmptyDict == MkSpec("", "", "", 0)

----------------------------------------------------------------------------
(* Python dict operations *)

\* d[k] = v
DictSet(d, k, v) == [x \in DOMAIN d \cup {k} |-> IF x = k THEN v ELSE d[x]]

\* A variant of d.update(e) that replaces d by e instead of merging into it.
DictUpdate_replacing(d, e) == e

\* d.update(e)
DictUpdate(d, e) ==
    [x \in DOMAIN d \cup DOMAIN e |-> IF x \in DOMAIN e THEN e[x] ELSE d[x]]

\* del d[k]
DictDel(d, k) == [x \in DOMAIN d \ {k} |-> d[x]]

----------------------------------------------------------------------------
(* Values *)

NoneValue == [kind |-> "None"]
Raised(exc) == [kind |-> "raise", exc |-> exc]
ResourceValue(name) == [kind |-> "DatabaseResource", name |-> name]
StrValue(s) == [kind |-> "str", value |-> s]

\* A free heap slot.
Free == [free |-> TRUE]

\* datetime.now().strftime('%Y%m%d-%H%M%S')
strftime(t) == <<"%Y%m%d-%H%M%S", t>>

\* f"{engine}://localhost:5432/{name}"
ConnectionString(engine, name) == <<engine, "://localhost:5432/", name>>

\* class DatabaseResource, __init__: created at clock reading t.
DatabaseResource(name, spec, t) ==
    [name |-> name,
     spec |-> spec,
     status |-> [phase |-> "Pending",
                 ready |-> FALSE,
                 message |-> "Waiting for reconciliation"],
     metadata |-> [created_at |-> t, generation |-> 1]]

Health ==
    [status |-> "healthy", uptime |-> "1h 23m", connections |-> 15,
     storage_used |-> "2.3 GB"]

----------------------------------------------------------------------------
(* Threads of control *)

IdlePc == <<"idle", 0>>

Idle ==
    [pc |-> IdlePc, op |-> "none", name |-> "", spec |-> EmptyDict,
     replicas |-> 0, db |-> NoRef, tmp |-> 0, ret |-> NoneValue]

\* The program state as a record.
St ==
    [databases |-> databases, heap |-> heap,
     reconciliation_history |-> reconciliation_history,
     clock |-> clock, threads |-> threads]

Goto(S, t, method, line) == [S EXCEPT !.threads[t].pc = <<method, line>>]

\* The objects something still refers to: the registry and the threads' db.
Live(S) ==
    {S.databases[n] : n \in DOMAIN S.databases} \cup
    {S.threads[t].db : t \in Threads}

\* Objects nothing refers to are reclaimed.
Collect(S) ==
    [S EXCEPT !.heap = [o \in ObjIds |-> IF o \in Live(S) THEN S.heap[o] ELSE Free]]

\* The call of thread t ends with return value (or exception) r.
Finish(S, t, r) ==
    Collect([S EXCEPT !.threads[t] = [Idle EXCEPT !.ret = r]])

\* A public method is entered.
Entry(op) ==
    CASE op = "create_database" -> <<op, 48>>
      [] op = "reconcile" -> <<op, 65>>
      [] op = "update_database" -> <<op, 181>>
      [] op = "delete_database" -> <<op, 211>>
      [] op = "scale_database" -> <<op, 225>>
      [] op = "backup_database" -> <<op, 242>>

Call(S, t, op, name, spec, replicas) ==
    [S EXCEPT !.threads[t] =
        [pc |-> Entry(op), op |-> op, name |-> name, spec |-> spec,
         replicas |-> replicas, db |-> NoRef, tmp |-> 0, ret |-> NoneValue]]

\* The object thread t's local db refers to.
Db(S, t) == S.heap[S.threads[t].db]

SetStatus(S, t, key, value) ==
    [S EXCEPT !.heap[S.threads[t].db].status = DictSet(@, key, value)]

----------------------------------------------------------------------------
(* DatabaseOperator, one statement per step *)

\* A variant of the required fields that leaves storage out.
required_fields_without_storage == {"engine", "version"}

\* A variant of the required fields that asks for the engine only.
required_fields_only_engine == {"engine"}

required_fields == {"engine", "version", "storage"}

\* reconcile(name) has returned to the method that called it; that method
\* returns in turn (create_database returns db, the others return None).
ReturnFromReconcile(S, t) ==
    Finish(S, t, IF S.threads[t].op = "create_database"
                    THEN ResourceValue(S.threads[t].name)
                    ELSE NoneValue)

\* self.reconcile(name) is called: a new frame, its db not yet bound.
CallReconcile(S, t) ==
    Collect([S EXCEPT !.threads[t].pc = <<"reconcile", 65>>,
                      !.threads[t].db = NoRef])

\* A variant of create_database that returns db without the call of
\* self.reconcile(name) of line 58.
create_database_without_reconcile(S, t) ==
    LET self == S.threads[t]
        line == self.pc[2]
        o == CHOOSE i \in ObjIds : S.heap[i] = Free /\
                                   \A j \in ObjIds : S.heap[j] = Free => i <= j
    IN  CASE line = 48 ->
               IF \E field \in required_fields : field \notin DOMAIN self.spec
                  THEN Finish(S, t, Raised("ValueError"))
                  ELSE Goto(S, t, "create_database", 52)
          [] line = 52 ->
               [S EXCEPT !.heap[o] = DatabaseResource(self.name, self.spec, S.clock),
                         !.clock = @ + 1,
                         !.threads[t].db = o,
                         !.threads[t].pc = <<"create_database", 53>>]
          [] line = 53 ->
               Finish([S EXCEPT !.databases = DictSet(@, self.name, self.db)],
                      t, ResourceValue(self.name))

create_database(S, t) ==
    LET self == S.threads[t]
        line == self.pc[2]
        o == CHOOSE i \in ObjIds : S.heap[i] = Free /\
                                   \A j \in ObjIds : S.heap[j] = Free => i <= j
    IN  CASE line = 48 ->
               IF \E field \in required_fields : field \notin DOMAIN self.spec
                  THEN Finish(S, t, Raised("ValueError"))
                  ELSE Goto(S, t, "create_database", 52)
          [] line = 52 ->
               [S EXCEPT !.heap[o] = DatabaseResource(self.name, self.spec, S.clock),
                         !.clock = @ + 1,
                         !.threads[t].db = o,
                         !.threads[t].pc = <<"create_database", 53>>]
          [] line = 53 ->
               Collect([S EXCEPT !.databases = DictSet(@, self.name, self.db),
                                 !.threads[t].pc = <<"create_database", 58>>])
          [] line = 58 -> CallReconcile(S, t)

_provision_database(S, t) ==
    LET line == S.threads[t].pc[2]
    IN  CASE line = 96 ->
               IF {"engine", "version"} \subseteq DOMAIN Db(S, t).spec
                  THEN Goto(S, t, "_provision_database", 111)
                  ELSE Finish(S, t, Raised("KeyError"))
          [] line = 111 ->
               Goto(SetStatus(S, t, "phase", "Provisioning"),
                    t, "_provision_database", 112)
          [] line = 112 ->
               Goto(SetStatus(S, t, "message", "Database provisioning in progress"),
                    t, "reconcile", 86)

\* A variant of _check_provisioning_status without line 125 (ready = True).
_check_provisioning_status_not_ready(S, t) ==
    LET line == S.threads[t].pc[2]
    IN  CASE line = 124 ->
               Goto(SetStatus(S, t, "phase", "Running"),
                    t, "_check_provisioning_status", 126)
          [] line = 126 ->
               Goto(SetStatus(S, t, "message", "Database is ready"),
                    t, "_check_provisioning_status", 127)
          [] line = 127 ->
               IF "engine" \in DOMAIN Db(S, t).spec
                  THEN Goto(SetStatus(S, t, "connection_string",
                                      ConnectionString(Db(S, t).spec["engine"],
                                                       Db(S, t).name)),
                            t, "reconcile", 86)
                  ELSE Finish(S, t, Raised("KeyError"))

_check_provisioning_status(S, t) ==
    LET line == S.threads[t].pc[2]
    IN  CASE line = 124 ->
               Goto(SetStatus(S, t, "phase", "Running"),
                    t, "_check_provisioning_status", 125)
          [] line = 125 ->
               Goto(SetStatus(S, t, "ready", TRUE),
                    t, "_check_provisioning_status", 126)
          [] line = 126 ->
               Goto(SetStatus(S, t, "message", "Database is ready"),
                    t, "_check_provisioning_status", 127)
          [] line = 127 ->
               IF "engine" \in DOMAIN Db(S, t).spec
                  THEN Goto(SetStatus(S, t, "connection_string",
                                      ConnectionString(Db(S, t).spec["engine"],
                                                       Db(S, t).name)),
                            t, "reconcile", 86)
                  ELSE Finish(S, t, Raised("KeyError"))

\* A variant of _monitor_health that also rewrites the status message.
_monitor_health_with_message(S, t) ==
    Goto(SetStatus(SetStatus(S, t, "health", Health), t, "message", "Healthy"),
         t, "reconcile", 86)

_monitor_health(S, t) ==
    Goto(SetStatus(S, t, "health", Health), t, "reconcile", 86)

_apply_update(S, t) ==
    LET line == S.threads[t].pc[2]
    IN  CASE line = 149 ->
               IF "version" \in DOMAIN Db(S, t).spec
                  THEN Goto(S, t, "_apply_update", 153)
                  ELSE Finish(S, t, Raised("KeyError"))
          [] line = 153 ->
               Goto(SetStatus(S, t, "phase", "Running"), t, "_apply_update", 154)
          [] line = 154 ->
               Goto(SetStatus(S, t, "message", "Update completed successfully"),
                    t, "reconcile", 86)

\* A variant of _delete_database without line 174 (del self.databases[...]).
_delete_database_keeping(S, t) == Goto(S, t, "reconcile", 86)

_delete_database(S, t) ==
    IF Db(S, t).name \in DOMAIN S.databases
       THEN Goto([S EXCEPT !.databases = DictDel(@, Db(S, t).name)],
                 t, "reconcile", 86)
       ELSE Finish(S, t, Raised("KeyError"))

\* The handler reconcile dispatches to for a phase (lines 74-83); a phase that
\* is none of the five falls through to the history record.
Handler(phase) ==
    CASE phase = "Pending" -> <<"_provision_database", 96>>
      [] phase = "Provisioning" -> <<"_check_provisioning_status", 124>>
      [] phase = "Running" -> <<"_monitor_health", 137>>
      [] phase = "Updating" -> <<"_apply_update", 149>>
      [] phase = "Deleting" -> <<"_delete_database", 174>>
      [] OTHER -> <<"reconcile", 86>>

\* A variant of reconcile without the history record of lines 86-91.
reconcile_without_record(S, t) ==
    LET self == S.threads[t]
        line == self.pc[2]
    IN  CASE line = 65 ->
               IF self.name \notin DOMAIN S.databases
                  THEN ReturnFromReconcile(S, t)
                  ELSE Goto(S, t, "reconcile", 69)
          [] line = 69 ->
               IF self.name \in DOMAIN S.databases
                  THEN [S EXCEPT !.threads[t].db = S.databases[self.name],
                                 !.threads[t].pc = <<"reconcile", 74>>]
                  ELSE Finish(S, t, Raised("KeyError"))
          [] line = 74 ->
               [S EXCEPT !.threads[t].pc = Handler(Db(S, t).status["phase"])]
          [] line = 86 ->
               ReturnFromReconcile([S EXCEPT !.clock = @ + 1], t)

reconcile(S, t) ==
    LET self == S.threads[t]
        line == self.pc[2]
    IN  CASE line = 65 ->
               IF self.name \notin DOMAIN S.databases
                  THEN ReturnFromReconcile(S, t)
                  ELSE Goto(S, t, "reconcile", 69)
          [] line = 69 ->
               IF self.name \in DOMAIN S.databases
                  THEN [S EXCEPT !.threads[t].db = S.databases[self.name],
                                 !.threads[t].pc = <<"reconcile", 74>>]
                  ELSE Finish(S, t, Raised("KeyError"))
          [] line = 74 ->
               [S EXCEPT !.threads[t].pc = Handler(Db(S, t).status["phase"])]
          [] line = 86 ->
               ReturnFromReconcile(
                   [S EXCEPT !.reconciliation_history =
                                 Append(@, [timestamp |-> S.clock,
                                            database |-> self.name,
                                            phase |-> Db(S, t).status["phase"],
                                            action |-> "reconciled"]),
                             !.clock = @ + 1],
                   t)

\* A variant of the change detection that reports every key passed.
Changes_every_key(dbspec, spec) == DOMAIN spec

\* The keys of spec whose value differs from db.spec.get(key) (lines 190-193);
\* get() reads an absent key as None, which differs from every value passed.
Changes(dbspec, spec) ==
    {key \in DOMAIN spec : IF key \in DOMAIN dbspec
                              THEN dbspec[key] # spec[key]
                              ELSE TRUE}

update_database(S, t) ==
    LET self == S.threads[t]
        line == self.pc[2]
    IN  CASE line = 181 ->
               IF self.name \notin DOMAIN S.databases
                  THEN Finish(S, t, NoneValue)
                  ELSE Goto(S, t, "update_database", 185)
          [] line = 185 ->
               IF self.name \in DOMAIN S.databases
                  THEN [S EXCEPT !.threads[t].db = S.databases[self.name],
                                 !.threads[t].pc = <<"update_database", 191>>]
                  ELSE Finish(S, t, Raised("KeyError"))
          [] line = 191 ->
               IF Changes(Db(S, t).spec, self.spec) # {}
                  THEN Goto(S, t, "update_database", 200)
                  ELSE Finish(S, t, NoneValue)
          [] line = 200 ->
               [S EXCEPT !.heap[self.db].spec = DictUpdate(@, self.spec),
                         !.threads[t].pc = <<"update_database", 201>>]
          [] line = 201 ->
               \* db.metadata['generation'] += 1: the read ...
               [S EXCEPT !.threads[t].tmp = Db(S, t).metadata["generation"],
                         !.threads[t].pc = <<"update_database", 2011>>]
          [] line = 2011 ->
               \* ... and the write of the sum
               [S EXCEPT !.heap[self.db].metadata =
                             DictSet(@, "generation", self.tmp + 1),
                         !.threads[t].tmp = 0,
                         !.threads[t].pc = <<"update_database", 202>>]
          [] line = 202 ->
               Goto(SetStatus(S, t, "phase", "Updating"), t, "update_database", 204)
          [] line = 204 -> CallReconcile(S, t)

delete_database(S, t) ==
    LET self == S.threads[t]
        line == self.pc[2]
    IN  CASE line = 211 ->
               IF self.name \notin DOMAIN S.databases
                  THEN Finish(S, t, NoneValue)
                  ELSE Goto(S, t, "delete_database", 217)
          [] line = 217 ->
               IF self.name \in DOMAIN S.databases
                  THEN [S EXCEPT !.threads[t].db = S.databases[self.name],
                                 !.threads[t].pc = <<"delete_database", 218>>]
                  ELSE Finish(S, t, Raised("KeyError"))
          [] line = 218 ->
               Goto(SetStatus(S, t, "phase", "Deleting"), t, "delete_database", 220)
          [] line = 220 -> CallReconcile(S, t)

\* A variant of scale_database that reconciles the resource after line 232.
scale_database_reconciling(S, t) ==
    LET self == S.threads[t]
        line == self.pc[2]
    IN  CASE line = 225 ->
               IF self.name \notin DOMAIN S.databases
                  THEN Finish(S, t, NoneValue)
                  ELSE Goto(S, t, "scale_database", 231)
          [] line = 231 ->
               IF self.name \in DOMAIN S.databases
                  THEN [S EXCEPT !.threads[t].db = S.databases[self.name],
                                 !.threads[t].pc = <<"scale_database", 232>>]
                  ELSE Finish(S, t, Raised("KeyError"))
          [] line = 232 ->
               CallReconcile([S EXCEPT !.heap[self.db].spec =
                                           DictSet(@, "replicas", self.replicas)],
                             t)

scale_database(S, t) ==
    LET self == S.threads[t]
        line == self.pc[2]
    IN  CASE line = 225 ->
               IF self.name \notin DOMAIN S.databases
                  THEN Finish(S, t, NoneValue)
                  ELSE Goto(S, t, "scale_database", 231)
          [] line = 231 ->
               IF self.name \in DOMAIN S.databases
                  THEN [S EXCEPT !.threads[t].db = S.databases[self.name],
                                 !.threads[t].pc = <<"scale_database", 232>>]
                  ELSE Finish(S, t, Raised("KeyError"))
          [] line = 232 ->
               Finish([S EXCEPT !.heap[self.db].spec =
                                    DictSet(@, "replicas", self.replicas)],
                      t, NoneValue)

backup_database(S, t) ==
    LET self == S.threads[t]
        line == self.pc[2]
    IN  CASE line = 242 ->
               IF self.name \notin DOMAIN S.databases
                  THEN Finish(S, t, NoneValue)
                  ELSE Goto(S, t, "backup_database", 248)
          [] line = 248 ->
               Finish([S EXCEPT !.clock = @ + 1], t,
                      StrValue(<<self.name, "-backup-", strftime(S.clock)>>))

\* The resource registered under name.
Resource(S, name) == S.heap[S.databases[name]]

get_database_status(S, name) ==
    IF name \notin DOMAIN S.databases
       THEN [error |-> "Database not found"]
       ELSE LET db == Resource(S, name)
            IN  [name |-> name,
                 engine |-> db.spec["engine"],
                 version |-> db.spec["version"],
                 phase |-> db.status["phase"],
                 ready |-> db.status["ready"],
                 message |-> db.status["message"],
                 created_at |-> db.metadata["created_at"],
                 generation |-> db.metadata["generation"],
                 health |-> IF "health" \in DOMAIN db.status
                               THEN db.status["health"]
                               ELSE EmptyDict]

\* As a set of status views: the order of the list carries no meaning here.
list_databases(S) == {get_database_status(S, name) : name \in DOMAIN S.databases}

----------------------------------------------------------------------------
(* Execution *)

\* The next statement of thread t.
Statement(S, t) ==
    LET method == S.threads[t].pc[1]
    IN  CASE method = "create_database" -> create_database(S, t)
          [] method = "reconcile" -> reconcile(S, t)
          [] method = "_provision_database" -> _provision_database(S, t)
          [] method = "_check_provisioning_status" -> _check_provisioning_status(S, t)
          [] method = "_monitor_health" -> _monitor_health(S, t)
          [] method = "_apply_update" -> _apply_update(S, t)
          [] method = "_delete_database" -> _delete_database(S, t)
          [] method = "update_database" -> update_database(S, t)
          [] method = "delete_database" -> delete_database(S, t)
          [] method = "scale_database" -> scale_database(S, t)
          [] method = "backup_database" -> backup_database(S, t)

RECURSIVE Complete(_, _)
\* Thread t runs until its call returns or raises.
Complete(S, t) ==
    IF S.threads[t].pc = IdlePc THEN S ELSE Complete(Statement(S, t), t)

\* The whole call op(name, ...) made by thread t in state S.
Run(S, t, op, name, spec, replicas) ==
    Complete(Call(S, t, op, name, spec, replicas), t)

Becomes(S) ==
    /\ databases' = S.databases
    /\ heap' = S.heap
    /\ reconciliation_history' = S.reconciliation_history
    /\ clock' = S.clock
    /\ threads' = S.threads

\* The clock readings a call may take.
Ticks(op) == IF op = "create_database" THEN 2 ELSE IF op = "scale_database" THEN 0 ELSE 1

Init ==
    /\ databases = EmptyDict
    /\ heap = [o \in ObjIds |-> Free]
    /\ reconciliation_history = <<>>
    /\ clock = 0
    /\ threads = [t \in Threads |-> Idle]

----------------------------------------------------------------------------
(* Spec: the single-threaded program, one action per public call *)

\* The state in which the call op(name, ...) made now returns.
After(op, name, spec, replicas) == Run(St, Main, op, name, spec, replicas)

CreateDatabase(name, spec) ==
    /\ clock + Ticks("create_database") <= MaxClock
    /\ Becomes(After("create_database", name, spec, 0))

Reconcile(name) ==
    /\ clock + Ticks("reconcile") <= MaxClock
    /\ Becomes(After("reconcile", name, EmptyDict, 0))

UpdateDatabase(name, spec) ==
    /\ clock + Ticks("update_database") <= MaxClock
    /\ Becomes(After("update_database", name, spec, 0))

DeleteDatabase(name) ==
    /\ clock + Ticks("delete_database") <= MaxClock
    /\ Becomes(After("delete_database", name, EmptyDict, 0))

ScaleDatabase(name, replicas) ==
    /\ clock + Ticks("scale_database") <= MaxClock
    /\ Becomes(After("scale_database", name, EmptyDict, replicas))

BackupDatabase(name) ==
    /\ clock + Ticks("backup_database") <= MaxClock
    /\ Becomes(After("backup_database", name, EmptyDict, 0))

Next ==
    \/ \E name \in Names, spec \in InputSpecs : CreateDatabase(name, spec)
    \/ \E name \in Names : Reconcile(name)
    \/ \E name \in Names, spec \in InputSpecs : UpdateDatabase(name, spec)
    \/ \E name \in Names : DeleteDatabase(name)
    \/ \E name \in Names, replicas \in ReplicaCounts : ScaleDatabase(name, replicas)
    \/ \E name \in Names : BackupDatabase(name)

Spec == Init /\ [][Next]_vars

----------------------------------------------------------------------------
(* SpecSteps: the same program, one statement per step, so that the states  *)
(* between the statements of a call are states of the behaviour             *)

StepNames == {"prod-db"}

StepSpecs ==
    {MkSpec(e, v, s, 0) : e \in Engines \cup {""}, v \in Versions \cup {""},
                          s \in Storages \cup {""}}

\* Thread t may enter method op: it is idle, and the clock readings of the
\* calls under way stay within MaxClock.
CanBegin(t, op) ==
    /\ threads[t].pc = IdlePc
    /\ clock + Ticks(op)
         + 2 * Cardinality({u \in Threads \ {t} : threads[u].pc # IdlePc}) <= MaxClock

\* Thread t stands at a statement of method.
At(t, method) == threads[t].pc[1] = method

BeginCreate(t) ==
    \E name \in StepNames, spec \in StepSpecs :
        /\ CanBegin(t, "create_database")
        /\ Becomes(Call(St, t, "create_database", name, spec, 0))

BeginReconcile(t) ==
    \E name \in StepNames :
        /\ CanBegin(t, "reconcile")
        /\ Becomes(Call(St, t, "reconcile", name, EmptyDict, 0))

BeginUpdate(t) ==
    \E name \in StepNames, spec \in StepSpecs :
        /\ CanBegin(t, "update_database")
        /\ Becomes(Call(St, t, "update_database", name, spec, 0))

BeginDelete(t) ==
    \E name \in StepNames :
        /\ CanBegin(t, "delete_database")
        /\ Becomes(Call(St, t, "delete_database", name, EmptyDict, 0))

BeginScale(t) ==
    \E name \in StepNames, replicas \in ReplicaCounts :
        /\ CanBegin(t, "scale_database")
        /\ Becomes(Call(St, t, "scale_database", name, EmptyDict, replicas))

BeginBackup(t) ==
    \E name \in StepNames :
        /\ CanBegin(t, "backup_database")
        /\ Becomes(Call(St, t, "backup_database", name, EmptyDict, 0))

StepCreate(t) ==
    /\ At(t, "create_database")
    /\ Becomes(Statement(St, t))

StepReconcile(t) ==
    /\ At(t, "reconcile")
    /\ Becomes(Statement(St, t))

StepProvision(t) ==
    /\ At(t, "_provision_database")
    /\ Becomes(Statement(St, t))

StepCheckProvisioning(t) ==
    /\ At(t, "_check_provisioning_status")
    /\ Becomes(Statement(St, t))

StepMonitorHealth(t) ==
    /\ At(t, "_monitor_health")
    /\ Becomes(Statement(St, t))

StepApplyUpdate(t) ==
    /\ At(t, "_apply_update")
    /\ Becomes(Statement(St, t))

StepDeleteHandler(t) ==
    /\ At(t, "_delete_database")
    /\ Becomes(Statement(St, t))

StepUpdate(t) ==
    /\ At(t, "update_database")
    /\ Becomes(Statement(St, t))

StepDelete(t) ==
    /\ At(t, "delete_database")
    /\ Becomes(Statement(St, t))

StepScale(t) ==
    /\ At(t, "scale_database")
    /\ Becomes(Statement(St, t))

StepBackup(t) ==
    /\ At(t, "backup_database")
    /\ Becomes(Statement(St, t))

NextSteps ==
    \/ BeginCreate(Main)
    \/ BeginReconcile(Main)
    \/ BeginUpdate(Main)
    \/ BeginDelete(Main)
    \/ BeginScale(Main)
    \/ BeginBackup(Main)
    \/ StepCreate(Main)
    \/ StepReconcile(Main)
    \/ StepProvision(Main)
    \/ StepCheckProvisioning(Main)
    \/ StepMonitorHealth(Main)
    \/ StepApplyUpdate(Main)
    \/ StepDeleteHandler(Main)
    \/ StepUpdate(Main)
    \/ StepDelete(Main)
    \/ StepScale(Main)
    \/ StepBackup(Main)

SpecSteps == Init /\ [][NextSteps]_vars

----------------------------------------------------------------------------
(* SpecThreads: two caller threads make calls on the one DatabaseOperator,  *)
(* their statements interleaved in every order; the code takes no lock      *)

NextThreads ==
    \E t \in Threads :
        \/ BeginCreate(t)
        \/ BeginReconcile(t)
        \/ BeginUpdate(t)
        \/ BeginDelete(t)
        \/ BeginScale(t)
        \/ BeginBackup(t)
        \/ StepCreate(t)
        \/ StepReconcile(t)
        \/ StepProvision(t)
        \/ StepCheckProvisioning(t)
        \/ StepMonitorHealth(t)
        \/ StepApplyUpdate(t)
        \/ StepDeleteHandler(t)
        \/ StepUpdate(t)
        \/ StepDelete(t)
        \/ StepScale(t)
        \/ StepBackup(t)

SpecThreads == Init /\ [][NextThreads]_vars

----------------------------------------------------------------------------
(* Properties *)

Stored == DOMAIN databases
Phase(n) == heap[databases[n]].status["phase"]
Ready(n) == heap[databases[n]].status["ready"]
Message(n) == heap[databases[n]].status["message"]
Generation(n) == heap[databases[n]].metadata["generation"]
CreatedAt(n) == heap[databases[n]].metadata["created_at"]
SpecOf(n) == heap[databases[n]].spec
Returned == threads[Main].ret

\* A spec that has the three required keys.
Valid(spec) == {"engine", "version", "storage"} \subseteq DOMAIN spec

\* At least one key of newSpec has a value that differs from the current spec.
Differs(old, newSpec) ==
    \E k \in DOMAIN newSpec : k \notin DOMAIN old \/ old[k] # newSpec[k]

\* The old spec overridden by newSpec.
Overridden(old, newSpec) ==
    [k \in DOMAIN old \cup DOMAIN newSpec |->
        IF k \in DOMAIN newSpec THEN newSpec[k] ELSE old[k]]

Event(t, n, phase) ==
    [timestamp |-> t, database |-> n, phase |-> phase, action |-> "reconciled"]

\* C1: in every state, also between the statements of one call, a stored
\* resource with ready = True has phase Running.
C1_ReadyImpliesRunning ==
    \A n \in Stored : Ready(n) => Phase(n) = "Running"

\* C2: after any sequence of completed calls, every stored resource whose
\* phase is Running has ready = True.
C2_RunningImpliesReady ==
    \A n \in Stored : Phase(n) = "Running" => Ready(n)

\* C3: while a name stays in the store, no call changes its generation other
\* than by leaving it or adding 1.
C3_GenerationStepsByOne ==
    [][\A n \in Names :
          (n \in Stored /\ n \in Stored') =>
              Generation(n)' \in {Generation(n), Generation(n) + 1}]_vars

\* C4: create_database with a (valid) spec for a name already in the store
\* fails with AlreadyExistsError and leaves the store and the history as
\* they were.
C4_CreateExistingRejected ==
    [][\A n \in Names, spec \in InputSpecs :
          (n \in Stored /\ Valid(spec) /\ CreateDatabase(n, spec)) =>
              /\ Returned' = Raised("AlreadyExistsError")
              /\ UNCHANGED <<databases, heap, reconciliation_history>>]_vars

\* C5: in every state, create_database with a spec that lacks engine,
\* version or storage raises the validation error and leaves the store, the
\* history and the clock as they were.
C5_InvalidCreateRejected ==
    \A n \in Names, spec \in InputSpecs :
        ~Valid(spec) =>
            LET S == After("create_database", n, spec, 0)
            IN  /\ S.threads[Main].ret = Raised("ValueError")
                /\ S.databases = databases
                /\ S.heap = heap
                /\ S.reconciliation_history = reconciliation_history
                /\ S.clock = clock

\* A rejected create has returned while the store and the history hold
\* something that could have been disturbed.
C5_Witness ==
    /\ Returned = Raised("ValueError")
    /\ Stored # {}
    /\ reconciliation_history # <<>>

EventsSinceCreate(n) ==
    {i \in 1 .. Len(reconciliation_history) :
        /\ reconciliation_history[i].database = n
        /\ reconciliation_history[i].timestamp > CreatedAt(n)}

\* The reconcile calls made on n since its creation, when no update was
\* accepted for it since (its generation is still 1).
ReconcileCalls(n) == Cardinality(EventsSinceCreate(n)) - 1

\* C7: a resource on which, since its creation, only reconcile was called
\* (no accepted update, no delete) is Running and ready once 2 reconcile calls
\* were made, and is so after every further one.
C7_RunningWithinTwoReconciles ==
    \A n \in Stored :
        (Generation(n) = 1 /\ ReconcileCalls(n) >= 2) =>
            (Phase(n) = "Running" /\ Ready(n))

\* A created resource that was reconciled three times.
C7_Witness ==
    \E n \in Stored :
        /\ Generation(n) = 1
        /\ ReconcileCalls(n) = 3
        /\ Phase(n) = "Running"
        /\ Ready(n)

C9_UpdateWithoutChangeIsNoOp ==
    \A n \in Stored, spec \in InputSpecs :
        ~Differs(SpecOf(n), spec) =>
            LET S == After("update_database", n, spec, 0)
            IN  /\ S.threads[Main].ret = NoneValue
                /\ S.databases = databases
                /\ S.heap = heap
                /\ S.reconciliation_history = reconciliation_history
                /\ S.clock = clock

\* A call has returned None while a stored resource that is not yet Running
\* has a spec for which a non-empty update without changes exists.
C9_Witness ==
    /\ Returned = NoneValue
    /\ clock + Ticks("update_database") <= MaxClock
    /\ \E n \in Stored, spec \in InputSpecs \ {EmptyDict} :
           /\ ~Differs(SpecOf(n), spec)
           /\ Phase(n) = "Provisioning"
           /\ Generation(n) = 1

\* C10: delete_database of a stored name removes it, whatever its phase: the
\* status query reports not-found and the listing no longer holds it; a name
\* leaves the store only through the Deleting handler of a delete call (which
\* records the phase Deleting), and comes back only through a create.
C10_DeleteRemoves ==
    [][\A n \in Names :
          /\ (n \in Stored /\ DeleteDatabase(n)) =>
                 /\ n \notin Stored'
                 /\ get_database_status(St', n) = [error |-> "Database not found"]
                 /\ \A view \in list_databases(St') : view.name # n
          /\ (n \in Stored /\ n \notin Stored') =>
                 /\ DeleteDatabase(n)
                 /\ reconciliation_history' =
                        Append(reconciliation_history, Event(clock, n, "Deleting"))
          /\ (n \notin Stored /\ n \in Stored') =>
                 \E spec \in InputSpecs : CreateDatabase(n, spec)]_vars

\* A name was deleted, further calls followed, and the name is still absent
\* while another is listed.
C10_Witness ==
    \E i \in 1 .. Len(reconciliation_history) :
        /\ reconciliation_history[i].phase = "Deleting"
        /\ reconciliation_history[i].database \notin Stored
        /\ i < Len(reconciliation_history)
        /\ get_database_status(St, reconciliation_history[i].database) =
               [error |-> "Database not found"]
        /\ list_databases(St) # {}

\* The public methods that take the name of an existing resource and look it
\* up first.
LookupOps ==
    {"update_database", "delete_database", "scale_database", "backup_database"}

\* The state is left as it was by a call that ended in state S (the clock and
\* the caller's own return value aside).
Untouched(S) ==
    /\ S.databases = databases
    /\ S.heap = heap
    /\ S.reconciliation_history = reconciliation_history

\* C11: in every state, reconcile of a name that is not in the store (never
\* created, or removed by a delete) fails with NotFoundError and changes
\* neither the store, nor any resource, nor the history.
C11_ReconcileUnknownFails ==
    \A n \in Names \ Stored :
        LET S == After("reconcile", n, EmptyDict, 0)
        IN  /\ S.threads[Main].ret = Raised("NotFoundError")
            /\ Untouched(S)

\* C12: in every state, update_database, delete_database, scale_database and
\* backup_database of a name that is not in the store each end in a NotFound
\* error, an outcome no successful call has, and change neither the store nor
\* the history.
C12_UnknownNameReported ==
    \A n \in Names \ Stored, op \in LookupOps, spec \in InputSpecs,
       replicas \in ReplicaCounts :
        LET S == After(op, n, spec, replicas)
        IN  /\ S.threads[Main].ret = Raised("NotFoundError")
            /\ Untouched(S)

\* s is an initial segment of t.
IsPrefix(s, t) == Len(s) <= Len(t) /\ SubSeq(t, 1, Len(s)) = s

\* C13: in every state, whichever call is made next, the history it leaves
\* has the present history as an initial segment; and reconcile of a stored
\* name appends exactly one record, with that name, the action 'reconciled'
\* and the phase the resource has once the handler has run.
C13_HistoryAppendOnly ==
    \A n \in Names :
        /\ \A spec \in InputSpecs :
               /\ IsPrefix(reconciliation_history,
                           After("create_database", n, spec, 0).reconciliation_history)
               /\ IsPrefix(reconciliation_history,
                           After("update_database", n, spec, 0).reconciliation_history)
        /\ \A op \in {"reconcile", "delete_database", "backup_database"} :
               IsPrefix(reconciliation_history,
                        After(op, n, EmptyDict, 0).reconciliation_history)
        /\ \A replicas \in ReplicaCounts :
               IsPrefix(reconciliation_history,
                        After("scale_database", n, EmptyDict, replicas).reconciliation_history)
        /\ n \in Stored =>
               LET S == After("reconcile", n, EmptyDict, 0)
               IN  /\ n \in DOMAIN S.databases
                   /\ S.reconciliation_history =
                          Append(reconciliation_history,
                                 Event(clock, n, Resource(S, n).status["phase"]))

\* Two reconcile calls were made on a stored name one after the other, the
\* first of them moving it from Provisioning to Running.
C13_Witness ==
    \E n \in Stored :
        LET len == Len(reconciliation_history)
        IN  /\ len >= 3
            /\ reconciliation_history[len - 2] =
                   Event(CreatedAt(n) + 1, n, "Provisioning")
            /\ reconciliation_history[len - 1].database = n
            /\ reconciliation_history[len - 1].phase = "Running"
            /\ reconciliation_history[len] = Event(clock - 1, n, "Running")
            /\ Phase(n) = "Running"

\* C14: in every state, for every stored name: scale_database changes
\* spec['replicas'] of that resource and nothing else (no phase, ready flag or
\* generation of any resource, no history record, no clock reading, hence no
\* reconcile); backup_database returns the backup name and changes no
\* resource, no store entry and no history record.
C14_ScaleAndBackupFrame ==
    \A n \in Stored :
        /\ \A replicas \in ReplicaCounts :
               LET S == After("scale_database", n, EmptyDict, replicas)
               IN  /\ S.threads[Main].ret = NoneValue
                   /\ S.databases = databases
                   /\ S.heap = [heap EXCEPT ![databases[n]].spec =
                                               DictSet(@, "replicas", replicas)]
                   /\ S.reconciliation_history = reconciliation_history
                   /\ S.clock = clock
        /\ LET S == After("backup_database", n, EmptyDict, 0)
           IN  /\ S.threads[Main].ret =
                      StrValue(<<n, "-backup-", strftime(clock)>>)
               /\ Untouched(S)
               /\ S.clock = clock + 1

\* A backup has returned while a resource that was scaled to 5 replicas is
\* stored next to another resource.
C14_Witness ==
    /\ Returned.kind = "str"
    /\ Cardinality(Stored) = 2
    /\ \E n \in Stored :
           /\ "replicas" \in DOMAIN SpecOf(n)
           /\ SpecOf(n)["replicas"] \in ReplicaCounts

\* The status of a resource without its health entry.
StatusButHealth(status) == [k \in DOMAIN status \ {"health"} |-> status[k]]

\* C15: in every state, reconcile of a stored resource whose phase is Running
\* leaves its name, spec, metadata and every status entry but health as they
\* were (a connection_string it lacks stays absent), sets status['health'],
\* leaves every other resource alone, and a second reconcile leaves the
\* resource exactly as the first did.
C15_ReconcileRunningIdempotent ==
    \A n \in Stored :
        Phase(n) = "Running" =>
            LET once == After("reconcile", n, EmptyDict, 0)
                twice == Run(once, Main, "reconcile", n, EmptyDict, 0)
            IN  /\ once.databases = databases
                /\ once.heap = [heap EXCEPT ![databases[n]].status =
                                                DictSet(@, "health", Health)]
                /\ StatusButHealth(Resource(once, n).status) =
                       StatusButHealth(heap[databases[n]].status)
                /\ twice.databases = once.databases
                /\ twice.heap = once.heap

\* A resource that became Running through an update (so without a
\* connection_string) was reconciled twice since and carries health data.
C15_Witness ==
    \E n \in Stored :
        LET len == Len(reconciliation_history)
            status == heap[databases[n]].status
        IN  /\ Phase(n) = "Running"
            /\ "health" \in DOMAIN status
            /\ "connection_string" \notin DOMAIN status
            /\ Generation(n) = 2
            /\ len >= 2
            /\ reconciliation_history[len] = Event(clock - 1, n, "Running")
            /\ reconciliation_history[len - 1] = Event(clock - 2, n, "Running")
            /\ Message(n) = "Update completed successfully"

\* The history holds a record of n in phase Running made since the stored
\* resource was constructed: the resource has been Running before.
HasBeenRunning(n) ==
    \E i \in 1 .. Len(reconciliation_history) :
        /\ reconciliation_history[i].database = n
        /\ reconciliation_history[i].phase = "Running"
        /\ reconciliation_history[i].timestamp > CreatedAt(n)

\* C16: a statement that makes a stored resource Running for the first time
\* is line 124 of _check_provisioning_status, executed on a resource whose
\* phase is Provisioning, whatever create, reconcile, update and scale calls
\* were made on the name before.
C16_FirstRunningFromProvisioning ==
    [][\A n \in StepNames :
          (/\ n \in Stored /\ n \in Stored'
           /\ databases'[n] = databases[n]
           /\ CreatedAt(n)' = CreatedAt(n)
           /\ Phase(n) # "Running"
           /\ Phase(n)' = "Running"
           /\ ~HasBeenRunning(n)) =>
              /\ Phase(n) = "Provisioning"
              /\ threads[Main].pc = <<"_check_provisioning_status", 124>>]_vars

\* C19: after any sequence of completed calls, every stored resource whose
\* phase is Running has a connection_string, and it is
\* "<engine>://localhost:5432/<name>" for the engine its spec holds now.
C19_RunningHasConnectionString ==
    \A n \in Stored :
        Phase(n) = "Running" =>
            /\ "connection_string" \in DOMAIN heap[databases[n]].status
            /\ heap[databases[n]].status["connection_string"] =
                   ConnectionString(SpecOf(n)["engine"], n)

\* C20: in every state, also between the statements of a call, the spec of
\* every stored resource has the keys engine, version and storage, the status
\* query of the resource can read them, and no call has ended in a KeyError.
C20_RequiredKeysStay ==
    /\ \A n \in Stored :
           /\ Valid(SpecOf(n))
           /\ get_database_status(St, n).engine = SpecOf(n)["engine"]
           /\ get_database_status(St, n).version = SpecOf(n)["version"]
           /\ \E view \in list_databases(St) : view.name = n
    /\ \A t \in Threads : threads[t].ret # Raised("KeyError")

\* A stored resource has been through an accepted update, the Updating
\* handler and a scale call.
C20_Witness ==
    \E n \in Stored :
        /\ Generation(n) = 2
        /\ Phase(n) = "Running"
        /\ "replicas" \in DOMAIN SpecOf(n)
        /\ SpecOf(n)["replicas"] \in ReplicaCounts
        /\ threads[Main].pc = IdlePc

\* The operations that the claim of exclusive access per name is about.
ExclusiveOps ==
    {"reconcile", "update_database", "scale_database", "delete_database"}

\* Thread t is inside one of these operations: it has executed the first
\* statement of the call and the call has not returned.
InFlight(t) ==
    /\ threads[t].op \in ExclusiveOps
    /\ threads[t].pc # IdlePc
    /\ threads[t].pc # Entry(threads[t].op)

\* C17: with two caller threads, no two of reconcile, update_database,
\* scale_database and delete_database are in flight for the same name at the
\* same time.
C17_OneInFlightPerName ==
    \A t, u \in Threads :
        (t # u /\ InFlight(t) /\ InFlight(u)) => threads[t].name # threads[u].name

\* Thread t is inside a phase handler.
InHandler(t) ==
    threads[t].pc[1] \in {"_provision_database", "_check_provisioning_status",
                          "_monitor_health", "_apply_update", "_delete_database"}

\* Thread t executes a statement in this step.
Moves(t) == threads'[t] # threads[t]

\* C18: with two caller threads, (1) delete_database sets the phase Deleting
\* (line 218) only when no other thread is inside a phase handler on the same
\* resource; (2) a handler changes the phase only of a resource whose name is
\* in the store; (3) the Deleting handler removes (line 174) only a name that
\* is in the store and refers to the resource it was called for.
C18_DeleteWaitsForHandler ==
    [][\A t \in Threads :
          /\ (threads[t].pc = <<"delete_database", 218>> /\ Moves(t)) =>
                 \A u \in Threads \ {t} :
                     ~(InHandler(u) /\ threads[u].db = threads[t].db)
          /\ (/\ InHandler(t) /\ Moves(t)
              /\ heap'[threads[t].db] # Free
              /\ heap'[threads[t].db].status["phase"] #
                     heap[threads[t].db].status["phase"]) =>
                 Db(St, t).name \in Stored
          /\ (threads[t].pc = <<"_delete_database", 174>> /\ Moves(t)) =>
                 /\ Db(St, t).name \in Stored
                 /\ databases[Db(St, t).name] = threads[t].db]_vars

====
